---- MODULE Spec2Model ----
(***************************************************************************)
(* A state-machine model of smc::sampler<Space> (include/sampler.hh): the  *)
(* SMC driver, its four resampling schemes, the fribble / variable-size    *)
(* iteration and the history stack it pushes to and pops from.             *)
(*                                                                         *)
(* Conventions.                                                            *)
(*  - Arrays are sequences: slot i of the source (0-based) is position     *)
(*    i+1 of the sequence.  Loop cursors (i, j, k) keep the source's       *)
(*    0-based values; uRSIndices and the index vectors returned by the     *)
(*    Sample* methods hold 0-based slot numbers, as in the source.         *)
(*  - A log-weight is an IEEE double restricted to the values the model    *)
(*    needs: a finite integer, -inf, +inf or NaN, with IEEE addition and   *)
(*    comparison.  exp is taken to base 2, so that every weight is an      *)
(*    exact rational; weights are used only in ratios, and are scaled by   *)
(*    a common power of two into integers.  Arithmetic is exact: rounding  *)
(*    of doubles is not modelled.                                          *)
(*  - A uniform draw on [0, 1/M) is a/(M*NumU) for a in 0..NumU-1.         *)
(*  - The resample threshold is held in halves (0.5*N is N halves).        *)
(***************************************************************************)
EXTENDS Integers, Sequences, FiniteSets, TLC

\* ---------------------------------------------------------------- bounds
\* Largest population size lSize a sampler is constructed with.
MaxN == 2
\* Largest population size of a sampler whose client calls Resample itself.
MaxSample == 3
\* Largest worker count of the parallel loops, and the number of iterations
\* followed when two runs of one seed are compared.
MaxThreads == 2
MaxParT == 1
\* Largest width handed to IntegratePathSampling.
MaxWidth == 2
\* Largest number M of indices a client asks a Sample* method for.
MaxDraw == 4
\* Largest population size of a sampler whose client calls IterateUntil.
MaxUntil == 1
\* Iterations are started only while T < MaxT.
MaxT == 2
\* IterateBack is called only while T > -MaxBack.
MaxBack == 1
\* Finite log-weights drawn by the initialisation kernel lie in -MaxLW..0.
MaxLW == 1
\* Number of distinct values a uniform draw takes.
NumU == 2
\* Stand-in for the population cap 100000 of IterateEssVariable; like 100000
\* it is not a multiple of every population size.
NMax == 3

\* ------------------------------------------------------ IEEE log-weights
Fin(n) == [k |-> "fin", v |-> n]
NegInf == [k |-> "ninf", v |-> 0]
PosInf == [k |-> "pinf", v |-> 0]
NaN == [k |-> "nan", v |-> 0]

IsFin(a) == a.k = "fin"
IsNaN(a) == a.k = "nan"

\* a + b on doubles
LwAdd(a, b) ==
    IF IsNaN(a) \/ IsNaN(b) THEN NaN
    ELSE IF IsFin(a) /\ IsFin(b) THEN Fin(a.v + b.v)
    ELSE IF IsFin(a) THEN b
    ELSE IF IsFin(b) THEN a
    ELSE IF a.k = b.k THEN a
    ELSE NaN

\* -a on doubles
LwNeg(a) ==
    CASE a.k = "fin" -> Fin(0 - a.v)
      [] a.k = "ninf" -> PosInf
      [] a.k = "pinf" -> NegInf
      [] OTHER -> NaN

\* a - b on doubles
LwSub(a, b) == LwAdd(a, LwNeg(b))

\* a < b on doubles: false as soon as one operand is NaN
LwLess(a, b) ==
    IF IsNaN(a) \/ IsNaN(b) THEN FALSE
    ELSE IF a.k = "ninf" THEN b.k # "ninf"
    ELSE IF a.k = "pinf" THEN FALSE
    ELSE IF b.k = "ninf" THEN FALSE
    ELSE IF b.k = "pinf" THEN TRUE
    ELSE a.v < b.v

\* std::max(a, b) == (a < b) ? b : a
StdMax(a, b) == IF LwLess(a, b) THEN b ELSE a

RECURSIVE Pow2(_)
Pow2(n) == IF n <= 0 THEN 1 ELSE 2 * Pow2(n - 1)

RECURSIVE Gcd(_, _)
Gcd(a, b) == IF b = 0 THEN a ELSE Gcd(b, a % b)

RECURSIVE SumSeq(_)
SumSeq(s) == IF s = <<>> THEN 0 ELSE Head(s) + SumSeq(Tail(s))

Min(S) == CHOOSE x \in S : \A y \in S : x <= y

\* ------------------------------------------------------------- particles
\* particle<Space>: a value and a log-weight.  A value is <<id, gen>>: the
\* slot the initialisation kernel made it for and the time of the last
\* move kernel applied to it.
Particle(val, logw) == [value |-> val, lw |-> logw]

SetLogWeight(p, logw) == [p EXCEPT !.lw = logw]
AddToLogWeight(p, d) == [p EXCEPT !.lw = LwAdd(p.lw, d)]
SetValue(p, val) == [p EXCEPT !.value = val]

HasNaN(ps) == \E i \in DOMAIN ps : ~ (IsFin(ps[i].lw) \/ ps[i].lw = NegInf)

\* The common scale of a population's weights: the least finite log-weight.
WeightBase(ps) ==
    LET E == {ps[i].lw.v : i \in {x \in DOMAIN ps : IsFin(ps[x].lw)}}
    IN IF E = {} THEN 0 ELSE Min(E)

\* exp(GetLogWeight()), scaled by 2^-base; exp(-inf) = 0
GetWeight(p, base) == IF IsFin(p.lw) THEN Pow2(p.lw.v - base) ELSE 0

\* The weights of a population as scaled integers.
Weights(ps) == [i \in DOMAIN ps |-> GetWeight(ps[i], WeightBase(ps))]

\* A real number num/den in lowest terms, or NaN.
Ratio(n, d) == [nan |-> FALSE, num |-> n \div Gcd(n, d), den |-> d \div Gcd(n, d)]
RealNaN == [nan |-> TRUE, num |-> 0, den |-> 1]
RealZero == [nan |-> FALSE, num |-> 0, den |-> 1]

\* sampler::GetESS: exp(-log(sumsq) + 2 log(sum)).  With a NaN log-weight the
\* sums are NaN; with every weight zero it is exp(inf - inf) = NaN.
GetESS(ps) ==
    LET w == Weights(ps)
        sum == SumSeq(w)
        sumsq == SumSeq([i \in DOMAIN w |-> w[i] * w[i]])
    IN IF HasNaN(ps) \/ sumsq = 0 THEN RealNaN ELSE Ratio(sum * sum, sumsq)

\* Seeded fault: the test is dESS <= dResampleThreshold.
EssBelowOrEqual(ess, thr2) == (~ ess.nan) /\ 2 * ess.num <= thr2 * ess.den

\* dESS < dResampleThreshold (threshold in halves); false for NaN
EssBelow(ess, thr2) == (~ ess.nan) /\ 2 * ess.num < thr2 * ess.den

\* --------------------------------------------------------------- history
\* history<particle<Space>>: a stack of generation snapshots.
historyflags(wasResampled) == [Resampled |-> wasResampled # 0]

HistoryPush(h, lNumber, pNew, nAccept, hf) ==
    Append(h, [number |-> lNumber, value |-> pNew, accepted |-> nAccept, flags |-> hf])

\* Pop(): removes the top element; on an empty stack nothing happens and
\* false is returned.
HistoryPop(h) == IF h = <<>> THEN h ELSE SubSeq(h, 1, Len(h) - 1)

\* Seeded fault: one Pop() in place of the loop.
HistoryClearOnce(h) == HistoryPop(h)

\* while(History.Pop()); pops until Pop() finds the stack empty
RECURSIVE HistoryClear(_)
HistoryClear(h) == IF h = <<>> THEN h ELSE HistoryClear(HistoryPop(h))

HistoryTop(h) == h[Len(h)]

\* The reals a + b, n * a and a / n; NaN if an operand is NaN.
RealAdd(a, b) ==
    IF a.nan \/ b.nan THEN RealNaN
    ELSE Ratio(a.num * b.den + b.num * a.den, a.den * b.den)
RealTimes(n, a) == IF a.nan THEN RealNaN ELSE Ratio(n * a.num, a.den)
RealOver(a, n) == IF a.nan THEN RealNaN ELSE Ratio(a.num, n * a.den)

\* The integrand that is 1 for every generation and particle.
PathIntegrand(g, p) == 1

\* The estimate a snapshot gives of the integrand at generation g: the sum
\* of exp(log-weight) * integrand over the sum of exp(log-weight).
SnapshotIntegrate(g, snap) ==
    LET w == Weights(snap.value)
        sum == SumSeq(w)
    IN IF HasNaN(snap.value) \/ sum = 0 THEN RealNaN
       ELSE Ratio(SumSeq([i \in DOMAIN w |-> w[i] * PathIntegrand(g, snap.value[i])]), sum)

\* The trapezoids from generation g on, for the constant width delta: the
\* interval between generations g - 1 and g adds
\* (width(g) + width(g - 1)) * (I_g + I_{g-1}), a quarter of which is its
\* area.  Generation g is the snapshot g places above the oldest.
RECURSIVE PathTrapezoids(_, _, _)
PathTrapezoids(h, delta, g) ==
    IF g >= Len(h) THEN RealZero
    ELSE RealAdd(RealTimes(delta + delta,
                           RealAdd(SnapshotIntegrate(g, h[g + 1]),
                                   SnapshotIntegrate(g - 1, h[g]))),
                 PathTrapezoids(h, delta, g + 1))

\* history::IntegratePathSampling: the trapezoidal quadrature over the
\* stack, oldest snapshot first.
HistoryIntegratePathSampling(h, delta) == RealOver(PathTrapezoids(h, delta, 1), 4)

\* ------------------------------------------------------------------ rng
\* rng::Uniform(0, 1/M): the numerator a of the draw a/(M*NumU)
UniformDraws == 0 .. (NumU - 1)

\* rng::Multinomial(n, K, p, out): the count vectors a draw of n trials can
\* fill out with; an entry of probability zero gets no trial.
Multinomial(n, p) ==
    {c \in [DOMAIN p -> 0 .. n] :
        /\ SumSeq(c) = n
        /\ \A i \in DOMAIN p : p[i] = 0 => c[i] = 0}

\* -------------------------------------------------------- Sample* methods
\* Seeded fault: the cumulative weight is compared with the far end of the
\* stratum, (j + 1) / M + dRand.
RECURSIVE SampleSystematicWhileFarEnd(_, _, _, _, _, _)
SampleSystematicWhileFarEnd(sum, M, bStratified, us, i, st) ==
    IF st.cum * M * NumU > ((st.j + 1) * NumU + us[st.nd]) * sum /\ st.j < M
    THEN SampleSystematicWhileFarEnd(sum, M, bStratified, us, i,
            [st EXCEPT !.count[i + 1] = @ + 1,
                       !.j = @ + 1,
                       !.nd = IF bStratified THEN @ + 1 ELSE @])
    ELSE st

\* The inner while loop of SampleSystematic for particle i.  st holds the
\* loop's variables: j, the cumulative weight cum (scaled as the weights
\* are), the counts, and nd, the number of uniform draws made so far
\* (dRand is us[nd]).
RECURSIVE SampleSystematicWhile(_, _, _, _, _, _)
SampleSystematicWhile(sum, M, bStratified, us, i, st) ==
    IF st.cum * M * NumU > (st.j * NumU + us[st.nd]) * sum /\ st.j < M
    THEN SampleSystematicWhile(sum, M, bStratified, us, i,
            [st EXCEPT !.count[i + 1] = @ + 1,
                       !.j = @ + 1,
                       !.nd = IF bStratified THEN @ + 1 ELSE @])
    ELSE st

\* The for loop of SampleSystematic over the particles i.
RECURSIVE SampleSystematicFor(_, _, _, _, _, _, _)
SampleSystematicFor(w, sum, M, bStratified, us, i, st) ==
    IF i < Len(w) /\ st.j < M
    THEN SampleSystematicFor(w, sum, M, bStratified, us, i + 1,
            SampleSystematicWhile(sum, M, bStratified, us, i,
                [st EXCEPT !.cum = @ + w[i + 1]]))
    ELSE st

\* The sample counts SampleSystematic computes.  With a NaN weight, or with
\* every weight zero, each comparison is false and every count stays 0.
SampleSystematicCount(ps, M, bStratified, us) ==
    LET w == Weights(ps)
        st0 == [j |-> 0, cum |-> 0, nd |-> 1, count |-> [i \in DOMAIN ps |-> 0]]
    IN IF HasNaN(ps) THEN st0.count
       ELSE SampleSystematicFor(w, SumSeq(w), M, bStratified, us, 0, st0).count

\* The parent indices written for the counts of particles i, i+1, ...
RECURSIVE CountToParents(_, _)
CountToParents(uCount, i) ==
    IF i >= Len(uCount) THEN <<>>
    ELSE [x \in 1 .. uCount[i + 1] |-> i] \o CountToParents(uCount, i + 1)

\* std::vector<unsigned> uIndices(M), zero-filled, then overwritten from the
\* front with the parent indices.
CountToIndices(uCount, M) ==
    LET filled == CountToParents(uCount, 0)
    IN [x \in 1 .. M |-> IF x <= Len(filled) THEN filled[x] ELSE 0]

SampleSystematic(ps, M, bStratified, us) ==
    CountToIndices(SampleSystematicCount(ps, M, bStratified, us), M)

SampleStratified(ps, M, us) == SampleSystematic(ps, M, TRUE, us)

\* The uniform draws a call of SampleSystematic(M) may consume.
DrawSeqs(M) == [1 .. (M + 1) -> UniformDraws]

\* --------------------------------------------- Resample: count to indices
\* The inner loops of the count-to-index map for particle i, whose count is
\* above 1: find the next slot j with no offspring, give it parent i.
\* A read of uRSCount[j] past the end ends the scan.
\* Seeded fault: the scan for a slot without offspring is left out.
NextFreeNoScan(cnt, j) == j

RECURSIVE NextFree(_, _)
NextFree(cnt, j) ==
    IF j < Len(cnt) /\ cnt[j + 1] > 0 THEN NextFree(cnt, j + 1) ELSE j

RECURSIVE MapSurplus(_, _)
MapSurplus(i, st) ==
    IF st.cnt[i + 1] > 1
    THEN LET jf == NextFree(st.cnt, st.j)
         IN IF jf >= Len(st.cnt) THEN [st EXCEPT !.j = jf]
            ELSE MapSurplus(i, [cnt |-> [st.cnt EXCEPT ![i + 1] = @ - 1],
                                idx |-> [st.idx EXCEPT ![jf + 1] = i],
                                j |-> jf + 1])
    ELSE st

\* for(i = 0, j = 0; i < N; ++i) of the count-to-index map
RECURSIVE MapCountToIndices(_, _, _)
MapCountToIndices(n, i, st) ==
    IF i < n
    THEN MapCountToIndices(n, i + 1,
            IF st.cnt[i + 1] > 0
            THEN MapSurplus(i, [st EXCEPT !.idx[i + 1] = i])
            ELSE st)
    ELSE st

\* ------------------------------------------------- Resample: replication
\* Seeded fault: the replication without pParticles[i].SetLogWeight(0).
RECURSIVE ReplicateKeepWeight(_, _, _, _)
ReplicateKeepWeight(n, idx, i, ps) ==
    IF i < n
    THEN ReplicateKeepWeight(n, idx, i + 1,
            [ps EXCEPT ![i + 1] =
                IF idx[i + 1] # i
                THEN SetValue(ps[i + 1], ps[idx[i + 1] + 1].value)
                ELSE ps[i + 1]])
    ELSE ps

\* for(i = 0; i < N; ++i): copy the parent's value in place, zero the weight
RECURSIVE Replicate(_, _, _, _)
Replicate(n, idx, i, ps) ==
    IF i < n
    THEN Replicate(n, idx, i + 1,
            [ps EXCEPT ![i + 1] =
                SetLogWeight(IF idx[i + 1] # i
                             THEN SetValue(ps[i + 1], ps[idx[i + 1] + 1].value)
                             ELSE ps[i + 1],
                             Fin(0))])
    ELSE ps

\* ------------------------------------------- Resample: residual counts
\* Seeded fault: N * w_i / W is rounded to the nearest integer.
ResidualFloorNearest(n, w) ==
    [i \in DOMAIN w |-> (2 * n * w[i] + SumSeq(w)) \div (2 * SumSeq(w))]
\* floor(N * w_i / W) and the numerator of the residual N * w_i / W - floor
ResidualFloor(n, w) == [i \in DOMAIN w |-> (n * w[i]) \div SumSeq(w)]
ResidualRest(n, w) == [i \in DOMAIN w |-> (n * w[i]) % SumSeq(w)]
\* Seeded fault: the floors are not added to the multinomial counts.
ResidualCountNoFloor(c, floors) == c
\* uRSCount[i] += uRSIndices[i], the floors being kept in uRSIndices
ResidualCount(c, floors) == [i \in DOMAIN c |-> c[i] + floors[i]]

\* ------------------------------------------------------------ the kernels
\* moveset<Space>: the client's kernels.  The initialisation kernel makes
\* the particle of slot i with value <<i, 0>>; the move kernel to time t
\* stamps the value with t and adds an increment to the log-weight; the MCMC
\* kernel reports whether it accepts and leaves the particle as it is.
DoInit(i, logw) == Particle(<<i, 0>>, logw)
DoMove(t, p, d) == AddToLogWeight(SetValue(p, <<p.value[1], t>>), d)
DoMCMC(t, p, accept) == p

\* The increments the move kernel adds to a log-weight.
MoveIncrements == {NegInf, Fin(0 - 1), Fin(0)}
\* The log-weights the initialisation kernel gives.
LogWeights == {NegInf} \cup {Fin(0 - x) : x \in 0 .. MaxLW}
\* The values read for a weight past the end of pParticles.
OutOfBoundsWeights == {0, 1}
\* The values an int that was never assigned may hold.
Uninitialised == {0, 1}

ResampleTypes == {"SMC_RESAMPLE_MULTINOMIAL", "SMC_RESAMPLE_RESIDUAL",
                  "SMC_RESAMPLE_STRATIFIED", "SMC_RESAMPLE_SYSTEMATIC",
                  "SMC_RESAMPLE_FRIBBLEBITS"}
HistoryTypes == {"SMC_HISTORY_NONE", "SMC_HISTORY_RAM"}
\* The thresholds the client sets, in halves: 0.5 (a fraction of N) and 1.5.
Thresholds == {1, 3}

\* ------------------------------------------------------------------ state
VARIABLES
    N, T, rtResampleMode, dResampleThreshold, uRSCount, uRSIndices,
    pParticles, nAccepted, nResampled, htHistoryMode, History,
    \* the point of control inside a method, and the method's locals
    pc, caller, lMode, dESS, j, k, dRand, dWeightCumulative,
    pStartingParticles, dGlobalMaxWeight,
    \* the exception the last call left with, if any
    exception,
    \* observation: the sampler as it stood when the last iteration was called
    atCall,
    \* the method that called the running iteration, and IterateUntil's argument
    outer, lTerminate,
    \* observation: the sampler as it stood when IterateUntil was called, and
    \* the number of calls of Iterate it has made since
    atUntil,
    \* the vector the last Sample* call returned, and observation: that call,
    \* with the sample counts it computed
    returned, atSample,
    \* the worker count of the parallel loops
    nThreads,
    \* the draws a seeded rng returns, call after call, and two runs of a
    \* sampler constructed with that seed, each with the number of calls it
    \* has made of the rng and the slots its workers have yet to visit
    stream, run,
    \* the value the last IntegratePathSampling returned, with observation:
    \* the width it was called with and the time T of the call
    dRes,
    \* the local ESS of IterateEss, which the call returns
    ESS,
    \* observation: whether the iteration that produced the current
    \* population resampled (cur), and the same for the population of each
    \* snapshot of the history, oldest first (hist)
    produced

sampler == <<N, T, rtResampleMode, dResampleThreshold, uRSCount, uRSIndices,
             pParticles, nAccepted, nResampled, htHistoryMode, History>>
locals == <<lMode, dESS, j, k, dRand, dWeightCumulative, pStartingParticles,
            dGlobalMaxWeight>>
parallel == <<nThreads, stream, run>>
rest == <<outer, lTerminate, atUntil, returned, atSample, parallel, dRes, ESS>>
frame == <<rest, produced>>
vars == <<sampler, pc, caller, locals, exception, atCall, frame>>

NoCall == [set |-> FALSE, T |-> 0, N |-> 0, particles |-> <<>>, accepted |-> 0]
ThisCall == [set |-> TRUE, T |-> T, N |-> N, particles |-> pParticles, accepted |-> nAccepted]

NoUntil == [set |-> FALSE, T |-> 0, calls |-> 0, state |-> <<>>]
NoResult == [set |-> FALSE, width |-> 0, T |-> 0, value |-> [nan |-> FALSE, num |-> 0, den |-> 1]]
NoSample == [set |-> FALSE, method |-> "none", M |-> 0, uCount |-> <<>>]

\* The locals of a method that is not running.
LocalsReset ==
    /\ lMode' = "none"
    /\ dESS' = RealZero
    /\ j' = 0
    /\ k' = 0
    /\ dRand' = 0
    /\ dWeightCumulative' = 0
    /\ pStartingParticles' = <<>>
    /\ dGlobalMaxWeight' = NegInf

\* sampler::sampler(lSize, htHM), with lSize up to maxSize and htHM in modes
ConstructedSampler(maxSize, modes) ==
    /\ N \in 1 .. maxSize
    /\ nThreads = 1
    /\ htHistoryMode \in modes
    /\ rtResampleMode = "SMC_RESAMPLE_STRATIFIED"
    /\ dResampleThreshold = N
    /\ pParticles = [i \in 1 .. N |-> Particle(<<0, 0>>, Fin(0))]
    /\ uRSCount = [i \in 1 .. N |-> 0]
    /\ uRSIndices = [i \in 1 .. N |-> 0]
    /\ T \in Uninitialised
    /\ nAccepted \in Uninitialised
    /\ nResampled \in Uninitialised
    /\ History = <<>>
    /\ pc = "new"
    /\ caller = "none"
    /\ lMode = "none"
    /\ dESS = RealZero
    /\ j = 0
    /\ k = 0
    /\ dRand = 0
    /\ dWeightCumulative = 0
    /\ pStartingParticles = <<>>
    /\ dGlobalMaxWeight = NegInf
    /\ exception = "none"
    /\ atCall = NoCall
    /\ outer = "none"
    /\ lTerminate = 0
    /\ atUntil = NoUntil
    /\ returned = <<>>
    /\ atSample = NoSample
    /\ dRes = NoResult
    /\ ESS = RealZero
    /\ produced = [cur |-> FALSE, hist |-> <<>>]

\* A sampler whose rng was seeded by default: its draws are left open.
Constructed(maxSize, modes) ==
    /\ ConstructedSampler(maxSize, modes)
    /\ stream = <<>>
    /\ run = <<>>

\* Two samplers constructed alike, their rngs seeded with one of seeds.
ConstructedSeeded(maxSize, modes, seeds) ==
    /\ ConstructedSampler(maxSize, modes)
    /\ stream \in seeds
    /\ run = [r \in 1 .. 2 |->
                [at |-> "new", T |-> T, pParticles |-> pParticles,
                 nAccepted |-> nAccepted, nAcceptedLocal |-> 0, calls |-> 0,
                 todo |-> <<>>, method |-> "none", pNewParticles |-> <<>>,
                 pStartingParticles |-> <<>>, dGlobalMaxWeight |-> NegInf,
                 writes |-> <<>>, trues |-> 0]]

\* sampler::SetResampleParams(rtMode, dThreshold), dThreshold2 in halves
SetResampleParams(rtMode, dThreshold2) ==
    /\ pc = "new"
    /\ rtResampleMode' = rtMode
    /\ dResampleThreshold' = IF dThreshold2 < 2 THEN dThreshold2 * N ELSE dThreshold2
    /\ UNCHANGED <<N, T, uRSCount, uRSIndices, pParticles, nAccepted, nResampled,
                   htHistoryMode, History, pc, caller, locals, exception, atCall>>
    /\ UNCHANGED frame

\* sampler::Initialise, the initialisation kernel giving the log-weights logw
InitialiseWith(W) ==
    /\ pc \in {"new", "idle"}
    /\ \E logw \in [1 .. N -> W] :
         LET ps == [i \in 1 .. N |-> DoInit(i - 1, logw[i])]
         IN /\ pParticles' = ps
            /\ IF htHistoryMode # "SMC_HISTORY_NONE"
               THEN /\ nResampled' = 0
                    /\ History' = HistoryPush(HistoryClear(History), N, ps, 0,
                                               historyflags(0))
               ELSE UNCHANGED <<nResampled, History>>
    /\ T' = 0
    /\ pc' = "idle"
    /\ exception' = "none"
    /\ atCall' = NoCall
    /\ UNCHANGED <<N, rtResampleMode, dResampleThreshold, uRSCount, uRSIndices,
                   nAccepted, htHistoryMode, caller, locals>>
    /\ produced' = [cur |-> FALSE,
                    hist |-> IF htHistoryMode # "SMC_HISTORY_NONE"
                             THEN <<FALSE>> ELSE produced.hist]
    /\ UNCHANGED rest

\* The initialisation kernel gives every particle the log-weight 0.
Initialise == InitialiseWith({Fin(0)})

\* The initialisation kernel gives each particle a log-weight of its own.
InitialiseWeighted == InitialiseWith(LogWeights)

\* The population's largest log-weight as the loops of IterateEss and
\* IterateEssVariable find it: std::max folded from -inf over slots i, i+1, ...
RECURSIVE MaxLogWeight(_, _, _)
MaxLogWeight(ps, i, dMax) ==
    IF i < Len(ps) THEN MaxLogWeight(ps, i + 1, StdMax(dMax, ps[i + 1].lw)) ELSE dMax

\* sampler::MoveParticles, the move kernel adding d[i] to the log-weight of slot i
MoveParticles(ps, t, d) == [i \in DOMAIN ps |-> DoMove(t, ps[i], d[i])]

\* The MCMC loop over the first N slots; acc is the set of slots whose
\* proposal the kernel accepts.
MCMCParticles(ps, t, acc) ==
    [i \in DOMAIN ps |-> IF i <= N THEN DoMCMC(t, ps[i], i \in acc) ELSE ps[i]]

\* Seeded fault: the search for the maximum starts from 0, not from -inf.
NormaliseFromZero(ps) ==
    LET dMaxWeight == MaxLogWeight(ps, 0, Fin(0))
    IN [i \in DOMAIN ps |-> SetLogWeight(ps[i], LwSub(ps[i].lw, dMaxWeight))]

\* The subtract-max normalisation of IterateEss.
Normalise(ps) ==
    LET dMaxWeight == MaxLogWeight(ps, 0, NegInf)
    IN [i \in DOMAIN ps |-> SetLogWeight(ps[i], LwSub(ps[i].lw, dMaxWeight))]

\* Seeded fault: the generation is pushed with an acceptance count of 0.
PushCurrentNoAccepted(h) ==
    IF htHistoryMode # "SMC_HISTORY_NONE"
    THEN HistoryPush(h, N, pParticles, 0, historyflags(nResampled))
    ELSE h

\* if(htHistoryMode != SMC_HISTORY_NONE) History.Push(N, pParticles.data(),
\* nAccepted, historyflags(nResampled))
PushCurrent(h) ==
    IF htHistoryMode # "SMC_HISTORY_NONE"
    THEN HistoryPush(h, N, pParticles, nAccepted, historyflags(nResampled))
    ELSE h

\* Seeded fault: the test of the history mode is left out.
MissingHistoryNever == FALSE

\* if(htHistoryMode == SMC_HISTORY_NONE) throw SMC_EXCEPTION(SMCX_MISSING_HISTORY, ...)
MissingHistory == htHistoryMode = "SMC_HISTORY_NONE"

\* ----------------------------------------------------- sampler::IterateEss
\* The history push, nAccepted = 0 and MoveParticles().
\* observation: the snapshot pushed holds the current population
PushProduced ==
    IF htHistoryMode # "SMC_HISTORY_NONE"
    THEN [produced EXCEPT !.hist = Append(@, produced.cur)]
    ELSE produced

IterateEssCall ==
    /\ History' = PushCurrent(History)
    /\ produced' = PushProduced
    /\ nAccepted' = 0
    /\ \E d \in [1 .. N -> MoveIncrements] :
         pParticles' = MoveParticles(pParticles, T + 1, d)
    /\ pc' = "IterateEss_normalise"
    /\ caller' = "IterateEss"
    /\ exception' = "none"
    /\ atCall' = ThisCall
    /\ UNCHANGED <<N, T, rtResampleMode, dResampleThreshold, uRSCount, uRSIndices,
                   nResampled, htHistoryMode, locals>>

\* The client calls IterateEss (or Iterate, which only calls IterateEss).
IterateEss ==
    /\ pc = "idle"
    /\ T < MaxT
    /\ IterateEssCall
    /\ UNCHANGED rest

\* Where IterateEss returns to.
AfterIterate == IF outer = "IterateUntil" THEN "IterateUntil" ELSE "idle"

\* "Normalise the weights to sensible values"
IterateEssNormalise ==
    /\ pc = "IterateEss_normalise"
    /\ pParticles' = Normalise(pParticles)
    /\ pc' = "IterateEss_ess"
    /\ UNCHANGED <<N, T, rtResampleMode, dResampleThreshold, uRSCount, uRSIndices,
                   nAccepted, nResampled, htHistoryMode, History, caller, locals,
                   exception, atCall>>
    /\ UNCHANGED frame

\* ESS = GetESS() and the choice of the resampling branch.
IterateEssCheck ==
    /\ pc = "IterateEss_ess"
    /\ ESS' = GetESS(pParticles)
    /\ dESS' = ESS'
    /\ produced' = [produced EXCEPT !.cur = EssBelow(ESS', dResampleThreshold)]
    /\ IF EssBelow(dESS', dResampleThreshold)
       THEN /\ nResampled' = 1
            /\ IF rtResampleMode = "SMC_RESAMPLE_FRIBBLEBITS"
               THEN pc' = "ResampleFribble" /\ lMode' = lMode
               ELSE pc' = "Resample" /\ lMode' = rtResampleMode
       ELSE /\ nResampled' = 0
            /\ pc' = "IterateEss_mcmc"
            /\ lMode' = lMode
    /\ UNCHANGED <<N, T, rtResampleMode, dResampleThreshold, uRSCount, uRSIndices,
                   pParticles, nAccepted, htHistoryMode, History, caller, j, k, dRand,
                   dWeightCumulative, pStartingParticles, dGlobalMaxWeight,
                   exception, atCall>>
    /\ UNCHANGED <<outer, lTerminate, atUntil, returned, atSample, parallel, dRes>>

\* The MCMC loop (skipped in fribble mode) and T++.
IterateEssMCMC ==
    /\ pc = "IterateEss_mcmc"
    /\ IF rtResampleMode # "SMC_RESAMPLE_FRIBBLEBITS"
       THEN \E acc \in SUBSET (1 .. N) :
              /\ pParticles' = MCMCParticles(pParticles, T + 1, acc)
              /\ nAccepted' = nAccepted + Cardinality(acc)
       ELSE UNCHANGED <<pParticles, nAccepted>>
    /\ T' = T + 1
    /\ pc' = AfterIterate
    /\ caller' = "none"
    /\ LocalsReset
    /\ UNCHANGED <<N, rtResampleMode, dResampleThreshold, uRSCount, uRSIndices,
                   nResampled, htHistoryMode, History, exception, atCall>>
    /\ ESS' = RealZero
    /\ UNCHANGED <<outer, lTerminate, atUntil, returned, atSample, parallel, dRes, produced>>

\* ------------------------------------------------------- sampler::Resample
\* Where Resample returns to.
AfterResample == IF caller = "Resample" THEN "idle" ELSE "IterateEss_mcmc"

\* The client calls Resample(lMode) itself.  The weights are well defined
\* and not all zero: otherwise the stratified loops never end.
Resample(mode) ==
    /\ pc = "idle"
    /\ ~ HasNaN(pParticles)
    /\ SumSeq(Weights(pParticles)) > 0
    /\ pc' = "Resample"
    /\ caller' = "Resample"
    /\ lMode' = mode
    /\ exception' = "none"
    /\ atCall' = NoCall
    /\ UNCHANGED <<sampler, dESS, j, k, dRand, dWeightCumulative,
                   pStartingParticles, dGlobalMaxWeight>>
    /\ UNCHANGED frame

\* case SMC_RESAMPLE_MULTINOMIAL
ResampleMultinomial ==
    /\ pc = "Resample"
    /\ lMode = "SMC_RESAMPLE_MULTINOMIAL"
    /\ uRSCount' \in Multinomial(N, Weights(pParticles))
    /\ pc' = "Resample_map"
    /\ UNCHANGED <<N, T, rtResampleMode, dResampleThreshold, uRSIndices, pParticles,
                   nAccepted, nResampled, htHistoryMode, History, caller, locals,
                   exception, atCall>>
    /\ UNCHANGED frame

\* case SMC_RESAMPLE_RESIDUAL
ResampleResidual ==
    /\ pc = "Resample"
    /\ lMode = "SMC_RESAMPLE_RESIDUAL"
    /\ LET w == Weights(pParticles)
           floors == ResidualFloor(N, w)
           uMultinomialCount == N - SumSeq(floors)
       IN /\ uRSIndices' = floors
          /\ \E c \in Multinomial(uMultinomialCount, ResidualRest(N, w)) :
               uRSCount' = ResidualCount(c, floors)
    /\ pc' = "Resample_map"
    /\ UNCHANGED <<N, T, rtResampleMode, dResampleThreshold, pParticles, nAccepted,
                   nResampled, htHistoryMode, History, caller, locals, exception,
                   atCall>>
    /\ UNCHANGED frame

\* case SMC_RESAMPLE_STRATIFIED, default, and case SMC_RESAMPLE_SYSTEMATIC, up
\* to the loop: the first uniform draw, uRSCount cleared, j = k = 0, and the
\* cumulative weight of particle 0.
ResampleStrata ==
    /\ pc = "Resample"
    /\ lMode \notin {"SMC_RESAMPLE_MULTINOMIAL", "SMC_RESAMPLE_RESIDUAL"}
    /\ dRand' \in UniformDraws
    /\ uRSCount' = [i \in 1 .. N |-> 0]
    /\ j' = 0
    /\ k' = 0
    /\ dWeightCumulative' = Weights(pParticles)[1]
    /\ pc' = IF lMode = "SMC_RESAMPLE_SYSTEMATIC"
             THEN "Resample_systematic" ELSE "Resample_stratified"
    /\ UNCHANGED <<N, T, rtResampleMode, dResampleThreshold, uRSIndices, pParticles,
                   nAccepted, nResampled, htHistoryMode, History, caller, lMode, dESS,
                   pStartingParticles, dGlobalMaxWeight, exception, atCall>>
    /\ UNCHANGED frame

\* Seeded fault: the comparison with the stratum's point is not strict.
StratumReachedInclusive ==
    /\ dWeightCumulative * N * NumU >= (j * NumU + dRand) * SumSeq(Weights(pParticles))
    /\ j < N

\* (dWeightCumulative - dRand) > j / N && j < N, the cumulative weight being
\* dWeightCumulative / dWeightSum and the draw dRand / (N * NumU)
StratumReached ==
    /\ dWeightCumulative * N * NumU > (j * NumU + dRand) * SumSeq(Weights(pParticles))
    /\ j < N

\* Seeded fault: the count is kept per stratum, uRSCount[j]++.
AcceptParticleByStratum == [uRSCount EXCEPT ![j + 1] = @ + 1]

\* uRSCount[k]++
AcceptParticle == [uRSCount EXCEPT ![k + 1] = @ + 1]

\* The body of the inner while loop: particle k is accepted for stratum j.
ResampleAccept ==
    /\ pc \in {"Resample_stratified", "Resample_systematic"}
    /\ StratumReached
    /\ uRSCount' = AcceptParticle
    /\ j' = j + 1
    /\ IF pc = "Resample_stratified"
       THEN dRand' \in UniformDraws
       ELSE dRand' = dRand
    /\ UNCHANGED <<N, T, rtResampleMode, dResampleThreshold, uRSIndices, pParticles,
                   nAccepted, nResampled, htHistoryMode, History, pc, caller, lMode,
                   dESS, k, dWeightCumulative, pStartingParticles, dGlobalMaxWeight,
                   exception, atCall>>
    /\ UNCHANGED frame

\* The weight read through the cursor k; past the end of pParticles the read
\* yields whatever lies there.
WeightRead(kk) ==
    IF kk < Len(pParticles) THEN {Weights(pParticles)[kk + 1]} ELSE OutOfBoundsWeights

\* The end of the outer loop's body: k++, the cumulative weight advanced by
\* the weight of particle k, and the test j < N of the outer loop.
ResampleAdvance ==
    /\ pc \in {"Resample_stratified", "Resample_systematic"}
    /\ ~ StratumReached
    /\ k' = k + 1
    /\ \E w \in WeightRead(k + 1) : dWeightCumulative' = dWeightCumulative + w
    /\ pc' = IF j < N THEN pc ELSE "Resample_map"
    /\ UNCHANGED <<N, T, rtResampleMode, dResampleThreshold, uRSCount, uRSIndices,
                   pParticles, nAccepted, nResampled, htHistoryMode, History, caller,
                   lMode, dESS, j, dRand, pStartingParticles, dGlobalMaxWeight,
                   exception, atCall>>
    /\ UNCHANGED frame

\* The count-to-index map and the replication of the chosen particles.
ResampleMap ==
    /\ pc = "Resample_map"
    /\ LET st == MapCountToIndices(N, 0, [cnt |-> uRSCount, idx |-> uRSIndices, j |-> 0])
       IN /\ uRSCount' = st.cnt
          /\ uRSIndices' = st.idx
          /\ pParticles' = Replicate(N, st.idx, 0, pParticles)
    /\ pc' = AfterResample
    /\ IF caller = "Resample"
       THEN caller' = "none" /\ LocalsReset
       ELSE /\ caller' = caller
            /\ lMode' = lMode
            /\ dESS' = dESS
            /\ j' = 0
            /\ k' = 0
            /\ dRand' = 0
            /\ dWeightCumulative' = 0
            /\ UNCHANGED <<pStartingParticles, dGlobalMaxWeight>>
    /\ UNCHANGED <<N, T, rtResampleMode, dResampleThreshold, nAccepted, nResampled,
                   htHistoryMode, History, exception, atCall>>
    /\ UNCHANGED frame

\* ------------------------------------------------ sampler::ResampleFribble
\* The copies pushed for the parents uIndices; the MCMC kernel accepts the
\* proposals of the new particles in acc.
FribbleChildren(ps, uIndices, t, acc) ==
    [x \in DOMAIN uIndices |->
        DoMCMC(t, Particle(ps[uIndices[x] + 1].value, ps[uIndices[x] + 1].lw), x \in acc)]

\* Seeded fault: the whole population is kept, not the chosen particles.
ReplicateChosenAll(ps, uIndices) ==
    [x \in DOMAIN ps |-> Particle(ps[x].value, Fin(0))]

\* The chosen particles replicated with log-weight 0.
ReplicateChosen(ps, uIndices) ==
    [x \in DOMAIN uIndices |-> Particle(ps[uIndices[x] + 1].value, Fin(0))]

\* One pass of while (dESS < dResampleThreshold): N new particles.
ResampleFribbleBatch ==
    /\ pc = "ResampleFribble"
    /\ EssBelow(dESS, dResampleThreshold)
    /\ \E us \in DrawSeqs(N), acc \in SUBSET (1 .. N) :
         pParticles' = pParticles \o
             FribbleChildren(pParticles, SampleStratified(pParticles, N, us), T + 1, acc)
    /\ dESS' = GetESS(pParticles')
    /\ UNCHANGED <<N, T, rtResampleMode, dResampleThreshold, uRSCount, uRSIndices,
                   nAccepted, nResampled, htHistoryMode, History, pc, caller, lMode,
                   j, k, dRand, dWeightCumulative, pStartingParticles,
                   dGlobalMaxWeight, exception, atCall>>
    /\ UNCHANGED frame

\* "Resample the population back down to N particles."
ResampleFribbleDown ==
    /\ pc = "ResampleFribble"
    /\ ~ EssBelow(dESS, dResampleThreshold)
    /\ \E us \in DrawSeqs(N) :
         pParticles' = ReplicateChosen(pParticles, SampleStratified(pParticles, N, us))
    /\ pc' = "IterateEss_mcmc"
    /\ UNCHANGED <<N, T, rtResampleMode, dResampleThreshold, uRSCount, uRSIndices,
                   nAccepted, nResampled, htHistoryMode, History, caller, locals,
                   exception, atCall>>
    /\ UNCHANGED frame

\* --------------------------------------------- sampler::IterateEssVariable
\* The history push and the stash of the starting particles.
IterateEssVariable ==
    /\ pc = "idle"
    /\ T < MaxT
    /\ History' = PushCurrent(History)
    /\ pStartingParticles' = pParticles
    /\ pParticles' = <<>>
    /\ dESS' = RealZero
    /\ dGlobalMaxWeight' = NegInf
    /\ pc' = "Variable_batch"
    /\ caller' = "IterateEssVariable"
    /\ exception' = "none"
    /\ atCall' = ThisCall
    /\ UNCHANGED <<N, T, rtResampleMode, dResampleThreshold, uRSCount, uRSIndices,
                   nAccepted, nResampled, htHistoryMode, lMode, j, k, dRand,
                   dWeightCumulative>>
    /\ produced' = PushProduced
    /\ UNCHANGED rest

\* Seeded fault: a batch with a new global maximum is rescaled by the old one.
AppendBatchByOldMax(ps, pNew, g) ==
    LET dLocalMaxWeight == MaxLogWeight(pNew, 0, NegInf)
        dGlobal == IF ps = <<>> THEN dLocalMaxWeight ELSE g
    IN IF LwLess(dGlobal, dLocalMaxWeight)
       THEN [particles |->
                [i \in DOMAIN ps |-> AddToLogWeight(ps[i], LwSub(dGlobal, dLocalMaxWeight))]
                \o [i \in DOMAIN pNew |-> AddToLogWeight(pNew[i], LwNeg(dGlobal))],
             global |-> dLocalMaxWeight]
       ELSE [particles |->
                ps \o [i \in DOMAIN pNew |-> AddToLogWeight(pNew[i], LwNeg(dGlobal))],
             global |-> dGlobal]

\* The accumulated population after a batch pNew is rescaled and appended;
\* g is the global maximum before the batch.
AppendBatch(ps, pNew, g) ==
    LET dLocalMaxWeight == MaxLogWeight(pNew, 0, NegInf)
        dGlobal == IF ps = <<>> THEN dLocalMaxWeight ELSE g
    IN IF LwLess(dGlobal, dLocalMaxWeight)
       THEN [particles |->
                [i \in DOMAIN ps |-> AddToLogWeight(ps[i], LwSub(dGlobal, dLocalMaxWeight))]
                \o [i \in DOMAIN pNew |-> AddToLogWeight(pNew[i], LwNeg(dLocalMaxWeight))],
             global |-> dLocalMaxWeight]
       ELSE [particles |->
                ps \o [i \in DOMAIN pNew |-> AddToLogWeight(pNew[i], LwNeg(dGlobal))],
             global |-> dGlobal]

\* One pass of the do-while loop: a batch of N moved copies of the starting
\* particles, rescaled and appended, and the loop's test.
VariableBatch ==
    /\ pc = "Variable_batch"
    /\ \E d \in [1 .. N -> MoveIncrements] :
         LET r == AppendBatch(pParticles,
                              MoveParticles(pStartingParticles, T + 1, d),
                              dGlobalMaxWeight)
         IN /\ pParticles' = r.particles
            /\ dGlobalMaxWeight' = r.global
    /\ dESS' = GetESS(pParticles')
    /\ pc' = IF EssBelow(dESS', dResampleThreshold) /\ Len(pParticles') < NMax
             THEN "Variable_batch" ELSE "Variable_finish"
    /\ UNCHANGED <<N, T, rtResampleMode, dResampleThreshold, uRSCount, uRSIndices,
                   nAccepted, nResampled, htHistoryMode, History, caller, lMode, j, k,
                   dRand, dWeightCumulative, pStartingParticles, exception, atCall>>
    /\ UNCHANGED frame

\* "Resample the population back down to N particles": the populations the
\* downsampling of IterateEssVariable may leave.
Downsampled ==
    IF Len(pParticles) > N
    THEN {ReplicateChosen(pParticles, SampleStratified(pParticles, N, us)) :
            us \in DrawSeqs(N)}
    ELSE {pParticles}

\* The downsampling to N particles, the MCMC loop and ++T.
VariableFinish ==
    /\ pc = "Variable_finish"
    /\ \E sampled \in Downsampled, acc \in SUBSET (1 .. N) :
         /\ pParticles' = MCMCParticles(sampled, T + 1, acc)
         /\ nAccepted' = Cardinality(acc)
    /\ nResampled' = IF Len(pParticles) > N THEN 1 ELSE nResampled
    /\ T' = T + 1
    /\ pc' = "idle"
    /\ caller' = "none"
    /\ LocalsReset
    /\ UNCHANGED <<N, rtResampleMode, dResampleThreshold, uRSCount, uRSIndices,
                   htHistoryMode, History, exception, atCall>>
    /\ produced' = [produced EXCEPT !.cur = Len(pParticles) > N]
    /\ UNCHANGED rest

\* ---------------------------------------------------- sampler::IterateBack
IterateBack ==
    /\ pc = "idle"
    /\ T > 0 - MaxBack
    /\ IF MissingHistory
       THEN /\ exception' = "SMCX_MISSING_HISTORY"
            /\ UNCHANGED <<N, pParticles, nAccepted, History, T>>
       ELSE /\ exception' = "none"
            /\ IF History # <<>>
               THEN /\ N' = HistoryTop(History).number
                    /\ pParticles' = HistoryTop(History).value
                    /\ nAccepted' = HistoryTop(History).accepted
               ELSE UNCHANGED <<N, pParticles, nAccepted>>
            /\ History' = HistoryPop(History)
            /\ T' = T - 1
    /\ atCall' = NoCall
    /\ UNCHANGED <<rtResampleMode, dResampleThreshold, uRSCount, uRSIndices,
                   nResampled, htHistoryMode, pc, caller, locals>>
    /\ produced' = IF MissingHistory \/ produced.hist = <<>>
                    THEN produced
                    ELSE [cur |-> produced.hist[Len(produced.hist)],
                          hist |-> SubSeq(produced.hist, 1, Len(produced.hist) - 1)]
    /\ UNCHANGED rest

\* ------------------------------------------ sampler::IntegratePathSampling
\* History.Push(N, pParticles.data(), nAccepted, historyflags(nResampled))
PathStack == HistoryPush(History, N, pParticles, nAccepted, historyflags(nResampled))

\* Seeded fault: the generation pushed for the integration stays on the stack.
PathNotPopped == PathStack

\* History.Pop() after the integration: the stack without the pushed
\* current generation.
PathPopped == HistoryPop(PathStack)

\* IntegratePathSampling with the integrand 1 and a constant width.
IntegratePathSampling ==
    /\ pc = "idle"
    /\ IF MissingHistory
       THEN /\ exception' = "SMCX_MISSING_HISTORY"
            /\ UNCHANGED <<History, dRes>>
       ELSE /\ exception' = "none"
            /\ \E delta \in 1 .. MaxWidth :
                 dRes' = [set |-> TRUE, width |-> delta, T |-> T,
                          value |-> HistoryIntegratePathSampling(PathStack, delta)]
            /\ History' = PathPopped
    /\ atCall' = NoCall
    /\ UNCHANGED <<N, T, rtResampleMode, dResampleThreshold, uRSCount, uRSIndices,
                   pParticles, nAccepted, nResampled, htHistoryMode, pc, caller,
                   locals>>
    /\ UNCHANGED <<outer, lTerminate, atUntil, returned, atSample, parallel, ESS, produced>>

\* ------------------------------------ the parallel loops, worker by worker
\* Two runs of the same operations on samplers constructed with one seed.
\* Each kernel call is a step of its own: the worker takes the next slot of
\* its share and calls the kernel with the sampler's one rng, pRng.get(),
\* whose next draw is Draw(calls + 1).  Observation: writes[i] lists the
\* workers that have written slot i in the loop under way, and trues counts
\* the calls of the MCMC kernel that returned true in the iteration.
Seeds == [1 .. (MaxN + 2 * MaxN * MaxParT) -> UniformDraws]

\* The n-th draw of the seeded rng, a generator whose period is the length
\* of the stream.
Draw(n) == stream[((n - 1) % Len(stream)) + 1]

NoWrites == [i \in 0 .. (N - 1) |-> <<>>]

\* The client's kernels, drawing from the rng they are handed: the
\* initialisation kernel draws the log-weight, the move kernel the increment
\* of the log-weight, and the MCMC kernel whether it accepts.
DrawnLogWeight(u) == Fin(0 - u)
DrawnAccept(u) == u = 1

\* Seeded fault: the loop is not shared out; every worker runs all of it.
ShareWholeLoop(w) == [x \in 1 .. N |-> x - 1]

\* The slots of worker w under the static schedule of an omp parallel for
\* over 0 .. N - 1 with nThreads workers: one run of consecutive slots each.
Share(w) ==
    LET size == (N + nThreads - 1) \div nThreads
        first == w * size
        last == IF (w + 1) * size < N THEN (w + 1) * size ELSE N
    IN [x \in 1 .. (IF last > first THEN last - first ELSE 0) |-> first + x - 1]

Shares == [w \in 0 .. (nThreads - 1) |-> Share(w)]

base == <<sampler, pc, caller, locals, exception, atCall, outer, lTerminate,
          atUntil, returned, atSample, dRes, ESS, produced>>

\* SetNumberOfThreads(n), before either run has begun
SetNumberOfThreads(n) ==
    /\ \A r \in 1 .. 2 : run[r].at = "new"
    /\ nThreads' = n
    /\ UNCHANGED <<base, stream, run>>

\* Initialise in run r: T = 0 and the initialisation kernel called for the
\* slots in turn (no history)
RunInitialise(r) ==
    /\ run[r].at = "new"
    /\ htHistoryMode = "SMC_HISTORY_NONE"
    /\ run' = [run EXCEPT ![r] =
                [@ EXCEPT !.T = 0,
                          !.pParticles = [i \in 1 .. N |->
                              DoInit(i - 1, DrawnLogWeight(Draw(run[r].calls + i)))],
                          !.calls = @ + N,
                          !.at = "idle"]]
    /\ UNCHANGED <<base, nThreads, stream>>

\* IterateEss in run r up to the fork of MoveParticles: nAccepted = 0
RunIterateEss(r) ==
    /\ run[r].at = "idle"
    /\ run[r].T < MaxParT
    /\ htHistoryMode = "SMC_HISTORY_NONE"
    /\ run' = [run EXCEPT ![r] =
                [@ EXCEPT !.nAccepted = 0, !.todo = Shares, !.at = "move",
                          !.method = "IterateEss", !.writes = NoWrites,
                          !.trues = 0]]
    /\ UNCHANGED <<base, nThreads, stream>>

\* Worker w of run r calls Moves.DoMove(T + 1, pParticles[i], pRng.get())
\* for the next slot i of its share.
RunDoMove(r, w) ==
    /\ run[r].at = "move"
    /\ w \in DOMAIN run[r].todo
    /\ run[r].todo[w] # <<>>
    /\ LET i == Head(run[r].todo[w])
           u == Draw(run[r].calls + 1)
       IN run' = [run EXCEPT ![r] =
                [@ EXCEPT !.pParticles[i + 1] = DoMove(run[r].T + 1, @, DrawnLogWeight(u)),
                          !.calls = @ + 1,
                          !.todo[w] = Tail(@),
                          !.writes[i] = Append(@, w)]]
    /\ UNCHANGED <<base, nThreads, stream>>

\* The join of MoveParticles in run r, the normalisation and the ESS test of
\* IterateEss, for an ESS that is not below the threshold (nResampled = 0),
\* up to the fork of the MCMC loop.
RunNormalise(r) ==
    /\ run[r].at = "move"
    /\ \A w \in DOMAIN run[r].todo : run[r].todo[w] = <<>>
    /\ rtResampleMode # "SMC_RESAMPLE_FRIBBLEBITS"
    /\ LET ps == Normalise(run[r].pParticles)
       IN /\ ~ EssBelow(GetESS(ps), dResampleThreshold)
          /\ run' = [run EXCEPT ![r] =
                [@ EXCEPT !.pParticles = ps,
                          !.nAcceptedLocal = run[r].nAccepted,
                          !.todo = Shares,
                          !.writes = NoWrites,
                          !.at = "mcmc"]]
    /\ UNCHANGED <<base, nThreads, stream>>

\* Worker w of run r calls Moves.DoMCMC(T + 1, pParticles[i], pRng.get())
\* for the next slot i of its share and counts an acceptance.
RunDoMCMC(r, w) ==
    /\ run[r].at = "mcmc"
    /\ w \in DOMAIN run[r].todo
    /\ run[r].todo[w] # <<>>
    /\ LET i == Head(run[r].todo[w])
           u == Draw(run[r].calls + 1)
       IN run' = [run EXCEPT ![r] =
                [@ EXCEPT !.pParticles[i + 1] = DoMCMC(run[r].T + 1, @, DrawnAccept(u)),
                          !.nAcceptedLocal = IF DrawnAccept(u) THEN @ + 1 ELSE @,
                          !.trues = IF DrawnAccept(u) THEN @ + 1 ELSE @,
                          !.calls = @ + 1,
                          !.todo[w] = Tail(@),
                          !.writes[i] = Append(@, w)]]
    /\ UNCHANGED <<base, nThreads, stream>>

\* IterateEssVariable in run r up to the fork of the first batch's move
\* loop (no history): the starting particles stashed, pParticles cleared.
RunIterateEssVariable(r) ==
    /\ run[r].at = "idle"
    /\ run[r].T < MaxParT
    /\ htHistoryMode = "SMC_HISTORY_NONE"
    /\ run' = [run EXCEPT ![r] =
                [@ EXCEPT !.pStartingParticles = run[r].pParticles,
                          !.pNewParticles = run[r].pParticles,
                          !.pParticles = <<>>,
                          !.dGlobalMaxWeight = NegInf,
                          !.todo = Shares,
                          !.at = "batch",
                          !.method = "IterateEssVariable",
                          !.writes = NoWrites,
                          !.trues = 0]]
    /\ UNCHANGED <<base, nThreads, stream>>

\* Worker w of run r calls Moves.DoMove(T + 1, pNewParticles[i], pRng.get())
\* for the next slot i of its share.
RunDoMoveNew(r, w) ==
    /\ run[r].at = "batch"
    /\ w \in DOMAIN run[r].todo
    /\ run[r].todo[w] # <<>>
    /\ LET i == Head(run[r].todo[w])
           u == Draw(run[r].calls + 1)
       IN run' = [run EXCEPT ![r] =
                [@ EXCEPT !.pNewParticles[i + 1] =
                              DoMove(run[r].T + 1, @, DrawnLogWeight(u)),
                          !.calls = @ + 1,
                          !.todo[w] = Tail(@),
                          !.writes[i] = Append(@, w)]]
    /\ UNCHANGED <<base, nThreads, stream>>

\* The join of a batch's move loop in run r: the batch rescaled and
\* appended, the ESS, and the loop's test; when it fails, the downsampling
\* with SampleStratified(N), which draws N + 1 times, up to the fork of the
\* MCMC loop with nAcceptedLocal = 0.
RunBatchJoin(r) ==
    /\ run[r].at = "batch"
    /\ \A w \in DOMAIN run[r].todo : run[r].todo[w] = <<>>
    /\ LET b == AppendBatch(run[r].pParticles, run[r].pNewParticles,
                            run[r].dGlobalMaxWeight)
           us == [x \in 1 .. (N + 1) |-> Draw(run[r].calls + x)]
       IN IF EssBelow(GetESS(b.particles), dResampleThreshold)
             /\ Len(b.particles) < NMax
          THEN run' = [run EXCEPT ![r] =
                [@ EXCEPT !.pParticles = b.particles,
                          !.dGlobalMaxWeight = b.global,
                          !.pNewParticles = run[r].pStartingParticles,
                          !.todo = Shares,
                          !.writes = NoWrites]]
          ELSE run' = [run EXCEPT ![r] =
                [@ EXCEPT !.pParticles =
                              IF Len(b.particles) > N
                              THEN ReplicateChosen(b.particles,
                                       SampleStratified(b.particles, N, us))
                              ELSE b.particles,
                          !.calls = IF Len(b.particles) > N THEN @ + N + 1 ELSE @,
                          !.dGlobalMaxWeight = b.global,
                          !.nAcceptedLocal = 0,
                          !.todo = Shares,
                          !.writes = NoWrites,
                          !.at = "mcmc"]]
    /\ UNCHANGED <<base, nThreads, stream>>

\* The join of the MCMC loop in run r: nAccepted = nAcceptedLocal, T++
RunReturn(r) ==
    /\ run[r].at = "mcmc"
    /\ \A w \in DOMAIN run[r].todo : run[r].todo[w] = <<>>
    /\ run' = [run EXCEPT ![r] =
                [@ EXCEPT !.nAccepted = run[r].nAcceptedLocal,
                          !.T = @ + 1,
                          !.at = "idle"]]
    /\ UNCHANGED <<base, nThreads, stream>>

\* ------------------------------------------- the Sample* methods, called
\* The client calls SampleMultinomial(M).
SampleMultinomialCall(M) ==
    /\ pc = "idle"
    /\ \E uCount \in Multinomial(M, Weights(pParticles)) :
         /\ returned' = CountToIndices(uCount, M)
         /\ atSample' = [set |-> TRUE, method |-> "SampleMultinomial", M |-> M,
                         uCount |-> uCount]
    /\ exception' = "none"
    /\ atCall' = NoCall
    /\ UNCHANGED <<sampler, pc, caller, locals, outer, lTerminate, atUntil, parallel, dRes, ESS, produced>>

\* The client calls SampleSystematic(M, bStratified).
SampleSystematicCall(M, bStratified) ==
    /\ pc = "idle"
    /\ \E us \in DrawSeqs(M) :
         /\ returned' = SampleSystematic(pParticles, M, bStratified, us)
         /\ atSample' = [set |-> TRUE, method |-> "SampleSystematic", M |-> M,
                         uCount |-> SampleSystematicCount(pParticles, M, bStratified, us)]
    /\ exception' = "none"
    /\ atCall' = NoCall
    /\ UNCHANGED <<sampler, pc, caller, locals, outer, lTerminate, atUntil, parallel, dRes, ESS, produced>>

\* The client calls SampleStratified(M).
SampleStratifiedCall(M) ==
    /\ pc = "idle"
    /\ \E us \in DrawSeqs(M) :
         /\ returned' = SampleStratified(pParticles, M, us)
         /\ atSample' = [set |-> TRUE, method |-> "SampleStratified", M |-> M,
                         uCount |-> SampleSystematicCount(pParticles, M, TRUE, us)]
    /\ exception' = "none"
    /\ atCall' = NoCall
    /\ UNCHANGED <<sampler, pc, caller, locals, outer, lTerminate, atUntil, parallel, dRes, ESS, produced>>

\* --------------------------------------------------- sampler::IterateUntil
\* Seeded fault: the loop goes on while T <= lTerminate.
UntilContinueInclusive == T <= lTerminate

\* while(T < lTerminate)
UntilContinue == T < lTerminate

\* The client calls IterateUntil(lTerm).
IterateUntil(lTerm) ==
    /\ pc = "idle"
    /\ pc' = "IterateUntil"
    /\ outer' = "IterateUntil"
    /\ lTerminate' = lTerm
    /\ atUntil' = [set |-> TRUE, T |-> T, calls |-> 0, state |-> sampler]
    /\ exception' = "none"
    /\ atCall' = NoCall
    /\ UNCHANGED <<sampler, caller, locals, returned, atSample, parallel, dRes, ESS, produced>>

\* The loop's test holds: Iterate(), that is IterateEss().
IterateUntilIterate ==
    /\ pc = "IterateUntil"
    /\ UntilContinue
    /\ IterateEssCall
    /\ atUntil' = [atUntil EXCEPT !.calls = @ + 1]
    /\ UNCHANGED <<outer, lTerminate, returned, atSample, parallel, dRes, ESS>>

\* The loop's test fails: IterateUntil returns.
IterateUntilReturn ==
    /\ pc = "IterateUntil"
    /\ ~ UntilContinue
    /\ pc' = "idle"
    /\ outer' = "none"
    /\ lTerminate' = 0
    /\ atUntil' = NoUntil
    /\ UNCHANGED <<sampler, caller, locals, exception, atCall, returned, atSample, parallel, dRes, ESS, produced>>

\* The targets the client passes to IterateUntil.
UntilTargets == 0 .. MaxT

\* ----------------------------------------------------------- specification
Init == Constructed(MaxN, HistoryTypes)

Configure ==
    \E rtMode \in ResampleTypes, dThreshold2 \in Thresholds :
        SetResampleParams(rtMode, dThreshold2)

ClientResample == \E mode \in ResampleTypes : Resample(mode)

\* The steps inside Resample.
ResampleSteps ==
    \/ ResampleMultinomial
    \/ ResampleResidual
    \/ ResampleStrata
    \/ ResampleAccept
    \/ ResampleAdvance
    \/ ResampleMap

\* The steps inside IterateEss after the call.
IterateEssSteps ==
    \/ IterateEssNormalise
    \/ IterateEssCheck
    \/ IterateEssMCMC
    \/ ResampleFribbleBatch
    \/ ResampleFribbleDown

Next ==
    \/ Configure
    \/ Initialise
    \/ IterateEss
    \/ IterateEssSteps
    \/ ClientResample
    \/ ResampleSteps
    \/ IterateEssVariable
    \/ VariableBatch
    \/ VariableFinish
    \/ IterateBack
    \/ IntegratePathSampling

\* Every method, on a sampler with or without history.
Spec == Init /\ [][Next]_vars

\* A client that initialises a new sampler with weighted particles and then
\* calls Resample itself, any number of times.
InitResample == Constructed(MaxSample, {"SMC_HISTORY_NONE"})
InitialiseNew == pc = "new" /\ InitialiseWeighted
NextResample ==
    \/ InitialiseNew
    \/ ClientResample
    \/ ResampleSteps
SpecResample == InitResample /\ [][NextResample]_vars

\* A client that iterates a sampler without history.
InitIterate == Constructed(MaxN, {"SMC_HISTORY_NONE"})
NextIterate ==
    \/ Configure
    \/ Initialise
    \/ IterateEss
    \/ IterateEssSteps
    \/ ResampleSteps
    \/ IterateEssVariable
    \/ VariableBatch
    \/ VariableFinish
    \/ IterateBack
    \/ IntegratePathSampling
SpecIterate == InitIterate /\ [][NextIterate]_vars

\* A client that iterates and rolls back a sampler with history.
InitHistory == Constructed(MaxN, {"SMC_HISTORY_RAM"})
NextHistory ==
    \/ Configure
    \/ Initialise
    \/ IterateEss
    \/ IterateEssSteps
    \/ ResampleSteps
    \/ IterateBack
SpecHistory == InitHistory /\ [][NextHistory]_vars

\* A client that iterates, rolls back and initialises again, with or without
\* the history.
InitInitialise == Constructed(MaxN, HistoryTypes)
NextInitialise ==
    \/ Configure
    \/ Initialise
    \/ IterateEss
    \/ IterateEssSteps
    \/ ResampleSteps
    \/ IterateBack
SpecInitialise == InitInitialise /\ [][NextInitialise]_vars

\* A client that keeps the history, iterates with the default resampling
\* parameters or with multinomial resampling below an ESS of 1.5, and asks
\* for the path-sampling integral.
InitPath == Constructed(MaxN, {"SMC_HISTORY_RAM"})
NextPath ==
    \/ SetResampleParams("SMC_RESAMPLE_MULTINOMIAL", 3)
    \/ Initialise
    \/ IterateEss
    \/ IterateEssNormalise
    \/ IterateEssCheck
    \/ ResampleMultinomial
    \/ ResampleMap
    \/ IterateEssMCMC
    \/ IntegratePathSampling
SpecPath == InitPath /\ [][NextPath]_vars

\* A client that initialises a new sampler with weighted particles and
\* draws samples of 1 .. MaxDraw indices from it.
InitSample == Constructed(MaxSample, {"SMC_HISTORY_NONE"})
NextSample ==
    \/ InitialiseNew
    \/ \E M \in 1 .. MaxDraw : SampleMultinomialCall(M)
    \/ \E M \in 1 .. MaxDraw, bStratified \in BOOLEAN : SampleSystematicCall(M, bStratified)
    \/ \E M \in 1 .. MaxDraw : SampleStratifiedCall(M)
SpecSample == InitSample /\ [][NextSample]_vars

\* Two clients that each construct a sampler with the same seed and worker
\* count, initialise it and iterate it.
InitParallel == ConstructedSeeded(MaxN, {"SMC_HISTORY_NONE"}, Seeds)
NextParallel ==
    \/ \E n \in 1 .. MaxThreads : SetNumberOfThreads(n)
    \/ \E r \in 1 .. 2 : RunInitialise(r)
    \/ \E r \in 1 .. 2 : RunIterateEss(r)
    \/ \E r \in 1 .. 2, w \in 0 .. (MaxThreads - 1) : RunDoMove(r, w)
    \/ \E r \in 1 .. 2 : RunNormalise(r)
    \/ \E r \in 1 .. 2, w \in 0 .. (MaxThreads - 1) : RunDoMCMC(r, w)
    \/ \E r \in 1 .. 2 : RunReturn(r)
SpecParallel == InitParallel /\ [][NextParallel]_vars

\* One client that constructs a seeded sampler, sets the worker count and
\* the resampling threshold 1.5 or leaves the defaults, initialises and
\* iterates with IterateEss or IterateEssVariable.
ConfigureWorkers ==
    /\ run[1].at = "new"
    /\ SetResampleParams("SMC_RESAMPLE_STRATIFIED", 3)
InitWorkers == ConstructedSeeded(MaxN, {"SMC_HISTORY_NONE"}, Seeds)
NextWorkers ==
    \/ \E n \in 1 .. MaxThreads : SetNumberOfThreads(n)
    \/ ConfigureWorkers
    \/ RunInitialise(1)
    \/ RunIterateEss(1)
    \/ \E w \in 0 .. (MaxThreads - 1) : RunDoMove(1, w)
    \/ RunNormalise(1)
    \/ RunIterateEssVariable(1)
    \/ \E w \in 0 .. (MaxThreads - 1) : RunDoMoveNew(1, w)
    \/ RunBatchJoin(1)
    \/ \E w \in 0 .. (MaxThreads - 1) : RunDoMCMC(1, w)
    \/ RunReturn(1)
SpecWorkers == InitWorkers /\ [][NextWorkers]_vars

\* A client that iterates a sampler without history, one iteration at a time
\* or with IterateUntil.  The steps inside a running method are taken sooner
\* or later: a call that can go on does go on.
InitUntil == Constructed(MaxUntil, {"SMC_HISTORY_NONE"})
ClientUntil == \E lTerm \in UntilTargets : IterateUntil(lTerm)
\* The steps inside IterateEss and Resample.
IterationSteps == IterateEssSteps \/ ResampleSteps
NextUntil ==
    \/ Configure
    \/ Initialise
    \/ IterateEss
    \/ IterateEssSteps
    \/ ResampleSteps
    \/ ClientUntil
    \/ IterateUntilIterate
    \/ IterateUntilReturn
SpecUntil ==
    /\ InitUntil
    /\ [][NextUntil]_vars
    /\ WF_vars(IterationSteps)
    /\ WF_vars(IterateUntilIterate)
    /\ WF_vars(IterateUntilReturn)

\* ------------------------------------------------------------- properties
AllLogWeightsZero(ps) == \A i \in DOMAIN ps : ps[i].lw = Fin(0)

\* C1: when IterateEss (in any resample mode, fribble included) or
\* IterateEssVariable returns, having been called on a population of exactly
\* N particles, the population again holds exactly N particles, N is what it
\* was, and T is one larger than at the call.
C1_IterationKeepsSizeAdvancesTime ==
    (pc = "idle" /\ atCall.set /\ Len(atCall.particles) = atCall.N)
        => /\ Len(pParticles) = N
           /\ N = atCall.N
           /\ T = atCall.T + 1

\* An iteration of a fribble sampler has returned after it resampled a
\* population of two particles: both slots hold copies of one particle.
C1_Witness ==
    /\ pc = "idle"
    /\ atCall.set
    /\ Len(atCall.particles) = atCall.N
    /\ rtResampleMode = "SMC_RESAMPLE_FRIBBLEBITS"
    /\ nResampled = 1
    /\ N = 2
    /\ Len(pParticles) = 2
    /\ pParticles[1].value = pParticles[2].value
    /\ T = atCall.T + 1

\* C2: in each of the four modes of Resample, for weights of positive sum,
\* the child counts held in uRSCount when the count-to-index map starts sum
\* to exactly N.
C2_ChildCountsSumToN ==
    pc = "Resample_map"
        => /\ Len(uRSCount) = N
           /\ \A i \in 1 .. N : uRSCount[i] >= 0
           /\ SumSeq(uRSCount) = N

\* Residual resampling of three particles has given two children to the
\* second particle and one to the third.
C2_Witness ==
    /\ pc = "Resample_map"
    /\ lMode = "SMC_RESAMPLE_RESIDUAL"
    /\ N = 3
    /\ SumSeq(Weights(pParticles)) > 0
    /\ uRSCount = <<0, 2, 1>>

\* C3: the count-to-index map and the in-place replication.  For the child
\* counts c (summing to N) and the parent map written to uRSIndices: a slot
\* with c_i >= 1 is its own parent; a slot with c_i = 0 has a parent with
\* c >= 2; exactly c_i slots have parent i; every slot ends with the value its
\* parent had before the replication; and, the values before being pairwise
\* distinct, exactly c_i slots end with the value of particle i.
C3_MapAndReplication ==
    [][(pc = "Resample_map" /\ SumSeq(uRSCount) = N)
        => /\ Len(uRSIndices') = N
           /\ Len(pParticles') = N
           /\ \A i \in 1 .. N :
                /\ uRSIndices'[i] \in 0 .. (N - 1)
                /\ uRSCount[i] >= 1 => uRSIndices'[i] = i - 1
                /\ uRSCount[i] = 0 => uRSCount[uRSIndices'[i] + 1] >= 2
                /\ Cardinality({s \in 1 .. N : uRSIndices'[s] = i - 1}) = uRSCount[i]
                /\ pParticles'[i].value = pParticles[uRSIndices'[i] + 1].value
           /\ (\A a, b \in 1 .. N : a # b => pParticles[a].value # pParticles[b].value)
                => \A i \in 1 .. N :
                     Cardinality({s \in 1 .. N :
                                    pParticles'[s].value = pParticles[i].value})
                         = uRSCount[i]
      ]_vars

\* A call of Resample has returned with every slot holding a copy of the last
\* of three particles: the two slots in front of it took its value before it
\* was itself visited.
C3_Witness ==
    /\ pc = "idle"
    /\ N = 3
    /\ uRSIndices = <<2, 2, 2>>
    /\ \A i \in 1 .. N : pParticles[i].value = <<2, 0>>

\* C4: when a resampling step returns (the replication of Resample, the
\* downsampling of ResampleFribble, the downsampling of IterateEssVariable)
\* every particle has log-weight 0.
C4_LogWeightsZeroAfterResampling ==
    [][/\ pc = "Resample_map" => AllLogWeightsZero(pParticles')
       /\ (pc = "ResampleFribble" /\ pc' # pc) => AllLogWeightsZero(pParticles')
       /\ (pc = "Variable_finish" /\ Len(pParticles) > N)
            => /\ \A sampled \in Downsampled : AllLogWeightsZero(sampled)
               /\ AllLogWeightsZero(pParticles')
      ]_vars

\* IterateEss is back from resampling a population of unequal weights: the
\* two slots hold copies of one particle, with log-weight 0.
C4_Witness ==
    /\ pc = "IterateEss_mcmc"
    /\ caller = "IterateEss"
    /\ nResampled = 1
    /\ N = 2
    /\ pParticles[1].value = pParticles[2].value
    /\ AllLogWeightsZero(pParticles)
    /\ EssBelow(dESS, dResampleThreshold)

\* The cumulative normalised weight F_kk, as the numerator over the weight sum:
\* the weights of particles 0 .. kk.
CumulativeWeight(kk) == SumSeq(SubSeq(Weights(pParticles), 1, kk + 1))

\* F_{kk-1} <= jj/N + u < F_kk for the draw u = a / (N * NumU)
InStratumOf(jj, kk, a) ==
    LET W == SumSeq(Weights(pParticles))
        point == (jj * NumU + a) * W
    IN /\ kk \in 0 .. (N - 1)
       /\ (IF kk = 0 THEN 0 ELSE CumulativeWeight(kk - 1)) * N * NumU <= point
       /\ point < CumulativeWeight(kk) * N * NumU

\* C5: in the stratified and systematic branches of Resample the j-th child
\* (j = 0 .. N-1) is given to the particle k with F_{k-1} <= j/N + u_j < F_k,
\* u_j being the draw in force (drawn afresh for each stratum in stratified
\* mode, drawn once in systematic mode); the strata are served in order.
C5_ChildGoesToItsStratum ==
    [][(pc \in {"Resample_stratified", "Resample_systematic"} /\ uRSCount' # uRSCount)
        => /\ j \in 0 .. (N - 1)
           /\ j' = j + 1
           /\ InStratumOf(j, k, dRand)
           /\ uRSCount' = [uRSCount EXCEPT ![k + 1] = @ + 1]
           /\ pc = "Resample_systematic" => dRand' = dRand
      ]_vars

\* Stratified resampling of three particles is about to give the last child
\* to the second particle, which already has one, on a draw above zero.
C5_Witness ==
    /\ pc = "Resample_stratified"
    /\ N = 3
    /\ j = 2
    /\ k = 1
    /\ dRand > 0
    /\ uRSCount[2] >= 1
    /\ StratumReached
    /\ InStratumOf(j, k, dRand)

\* C6: with history enabled, IterateBack called right after an IterateEss
\* restores the population size N, the whole particle vector, nAccepted and
\* T to what they were when that IterateEss was called.
C6_IterateBackUndoesIterateEss ==
    [][(htHistoryMode # "SMC_HISTORY_NONE" /\ atCall.set /\ IterateBack)
        => /\ N' = atCall.N
           /\ pParticles' = atCall.particles
           /\ nAccepted' = atCall.accepted
           /\ T' = atCall.T
      ]_vars

\* A sampler with history is back at generation 1 after a second iteration
\* that resampled: the flag of that iteration is still set, the particles are
\* the two distinct ones of generation 1 and the stack holds what Initialise
\* and the first iteration pushed.
C6_Witness ==
    /\ htHistoryMode = "SMC_HISTORY_RAM"
    /\ pc = "idle"
    /\ ~ atCall.set
    /\ exception = "none"
    /\ T = 1
    /\ Len(History) = 2
    /\ nResampled = 1
    /\ N = 2
    /\ pParticles[1].value = <<0, 1>>
    /\ pParticles[2].value = <<1, 1>>
    /\ pParticles[2].lw # Fin(0)
    /\ nAccepted > 0

\* C7: T is non-negative in every state reachable once Initialise has run.
C7_TimeNonNegative == pc # "new" => T >= 0

\* C8: without history, IterateBack and IntegratePathSampling fail with
\* SMCX_MISSING_HISTORY and leave the sampler as it was.
C8_MissingHistoryLeavesSamplerUnchanged ==
    [][(htHistoryMode = "SMC_HISTORY_NONE" /\ (IterateBack \/ IntegratePathSampling))
        => /\ exception' = "SMCX_MISSING_HISTORY"
           /\ UNCHANGED sampler
      ]_vars

\* A sampler without history has thrown SMCX_MISSING_HISTORY at generation 1,
\* its particles being those the iteration left.
C8_Witness ==
    /\ htHistoryMode = "SMC_HISTORY_NONE"
    /\ exception = "SMCX_MISSING_HISTORY"
    /\ pc = "idle"
    /\ T = 1
    /\ N = 2
    /\ pParticles[1].value[2] = 1
    /\ History = <<>>

\* C9: in IterateEss, the moved population holding at least one finite
\* log-weight, the subtract-max normalisation leaves a population whose
\* largest log-weight is exactly 0: some particle has log-weight 0 and every
\* log-weight is a number not above 0.
C9_NormalisedMaxIsZero ==
    [][(pc = "IterateEss_normalise" /\ \E i \in 1 .. N : IsFin(pParticles[i].lw))
        => /\ \E i \in 1 .. N : pParticles'[i].lw = Fin(0)
           /\ \A i \in 1 .. N :
                /\ ~ IsNaN(pParticles'[i].lw)
                /\ ~ LwLess(Fin(0), pParticles'[i].lw)
      ]_vars

\* The normalisation has raised the log-weight of the second particle from
\* below 0 at the call to 0.
C9_Witness ==
    /\ pc = "IterateEss_ess"
    /\ caller = "IterateEss"
    /\ N = 2
    /\ atCall.particles[2].lw = Fin(0 - 1)
    /\ pParticles[2].lw = Fin(0)
    /\ IsFin(pParticles[1].lw)

\* The largest log-weight of the accumulated population is exactly 0.
MaxLogWeightIsZero(ps) ==
    /\ \E i \in DOMAIN ps : ps[i].lw = Fin(0)
    /\ \A i \in DOMAIN ps : ~ IsNaN(ps[i].lw) /\ ~ LwLess(Fin(0), ps[i].lw)

\* C10 as the specification states it: in IterateEssVariable, after every
\* batch append, the largest log-weight of the accumulated population is 0.
C10_Original ==
    [][pc = "Variable_batch" => MaxLogWeightIsZero(pParticles')]_vars

\* C10, amended: in IterateEssVariable, after every batch append that leaves
\* the accumulated population with at least one finite log-weight, the largest
\* log-weight of the accumulated population is 0.
C10_AccumulatedMaxIsZero ==
    [][(pc = "Variable_batch" /\ \E i \in DOMAIN pParticles' : IsFin(pParticles'[i].lw))
        => MaxLogWeightIsZero(pParticles')
      ]_vars

\* A second batch has been appended whose largest log-weight is above that
\* of the first: the first batch was rescaled below 0.
C10_Witness ==
    /\ pc \in {"Variable_batch", "Variable_finish"}
    /\ caller = "IterateEssVariable"
    /\ N = 2
    /\ Len(pParticles) = 4
    /\ pParticles[1].lw = Fin(0 - 1)
    /\ pParticles[2].lw = NegInf
    /\ pParticles[3].lw = Fin(0)

\* C11: in IterateEssVariable the accumulated population holds, from the
\* first batch append to the end of the batch loop, at least N and at most
\* NMax (100000 in the source) particles.
C11_AccumulatedSizeWithinCap ==
    (caller = "IterateEssVariable" /\ pParticles # <<>>)
        => (N <= Len(pParticles) /\ Len(pParticles) <= NMax)

Max(a, b) == IF a >= b THEN a ELSE b

\* C12: IterateUntil(lTerminate), called at time T0, returns; it has then
\* called Iterate exactly max(0, lTerminate - T0) times and T is
\* max(T0, lTerminate); called with T0 >= lTerminate it iterates not once and
\* leaves the sampler as it was.
C12_IterateUntilReachesTarget ==
    /\ [][(pc = "IterateUntil" /\ pc' = "idle")
            => /\ T' = Max(atUntil.T, lTerminate)
               /\ T' >= lTerminate
               /\ atUntil.calls = Max(0, lTerminate - atUntil.T)
               /\ atUntil.T >= lTerminate => sampler' = atUntil.state
         ]_vars
    /\ (outer = "IterateUntil") ~> (pc = "idle")

\* IterateUntil(2), called at time 0, is about to return after two calls of
\* Iterate, the second of which resampled.
C12_Witness ==
    /\ pc = "IterateUntil"
    /\ lTerminate = 2
    /\ atUntil.set
    /\ atUntil.T = 0
    /\ atUntil.calls = 2
    /\ T = 2
    /\ nResampled = 1

\* C13: called with M >= 1 on a population of positive total weight,
\* SampleMultinomial, SampleSystematic (stratified or not) and
\* SampleStratified compute sample counts that sum to M and return a vector
\* of exactly M entries, each the index of a particle of the population and
\* each written from the counts: index i occurs uCount[i] times.  The
\* population may be smaller or larger than M.
C13_SampleReturnsMIndices ==
    (atSample.set /\ ~ HasNaN(pParticles) /\ SumSeq(Weights(pParticles)) > 0)
        => /\ atSample.M >= 1
           /\ Len(returned) = atSample.M
           /\ SumSeq(atSample.uCount) = atSample.M
           /\ \A x \in 1 .. Len(returned) : returned[x] \in 0 .. (Len(pParticles) - 1)
           /\ \A i \in 1 .. Len(pParticles) :
                Cardinality({x \in 1 .. Len(returned) : returned[x] = i - 1})
                    = atSample.uCount[i]

\* SampleSystematic has drawn four indices from a population of three
\* particles, the first of which has weight zero: two children of the second
\* and two of the third.
C13_Witness ==
    /\ atSample.set
    /\ atSample.method = "SampleSystematic"
    /\ atSample.M = 4
    /\ Len(pParticles) = 3
    /\ pParticles[1].lw = NegInf
    /\ returned = <<1, 1, 2, 2>>

\* Particle 0 carries all the weight of the population.
SlotZeroCarriesAll ==
    /\ ~ HasNaN(pParticles)
    /\ Weights(pParticles)[1] > 0
    /\ \A i \in 2 .. Len(pParticles) : Weights(pParticles)[i] = 0

\* C14: degenerate collapse.  When particle 0 carries all the weight, the
\* stratified and the systematic schemes end, for every draw, with N children
\* for particle 0 and none for any other; the map and replication that follow
\* leave every slot with the value particle 0 had and log-weight 0.
C14_DegenerateCollapse ==
    [][(/\ pc = "Resample_map"
        /\ lMode \in {"SMC_RESAMPLE_STRATIFIED", "SMC_RESAMPLE_SYSTEMATIC"}
        /\ SlotZeroCarriesAll)
        => /\ uRSCount = [i \in 1 .. N |-> IF i = 1 THEN N ELSE 0]
           /\ Len(pParticles') = N
           /\ \A i \in 1 .. N : pParticles'[i] = Particle(pParticles[1].value, Fin(0))
      ]_vars

\* The stratified scheme has given all three children to particle 0, the
\* only one of three with a weight above zero.
C14_Witness ==
    /\ pc = "Resample_map"
    /\ lMode = "SMC_RESAMPLE_STRATIFIED"
    /\ N = 3
    /\ SlotZeroCarriesAll
    /\ pParticles[2].lw = NegInf
    /\ uRSCount = <<3, 0, 0>>

\* C15: residual resampling.  With w the weights and W their sum, every
\* particle i gets at least floor(N * w_i / W) children (the floor is the f
\* with f * W <= N * w_i < (f + 1) * W); the children beyond the floors are
\* R = N - sum of the floors in number and go only to particles whose
\* N * w_i / W has a fractional part; and when every N * w_i / W is an
\* integer, R = 0 and every count equals N * w_i / W.
C15_ResidualCounts ==
    (pc = "Resample_map" /\ lMode = "SMC_RESAMPLE_RESIDUAL")
        => LET w == Weights(pParticles)
               W == SumSeq(w)
               R == N - SumSeq(uRSIndices)
           IN /\ \A i \in 1 .. N :
                   /\ uRSIndices[i] * W <= N * w[i]
                   /\ N * w[i] < (uRSIndices[i] + 1) * W
                   /\ uRSCount[i] >= uRSIndices[i]
                   /\ (N * w[i]) % W = 0 => uRSCount[i] = uRSIndices[i]
              /\ R >= 0
              /\ SumSeq([i \in 1 .. N |-> uRSCount[i] - uRSIndices[i]]) = R
              /\ (\A i \in 1 .. N : (N * w[i]) % W = 0)
                    => /\ R = 0
                       /\ \A i \in 1 .. N : uRSCount[i] * W = N * w[i]

\* Residual resampling of three particles of weights 1/2, 1/4 and 1/4 of the
\* total: the floors are 1, 0, 0 and both remaining children went to the
\* last particle.
C15_Witness ==
    /\ pc = "Resample_map"
    /\ lMode = "SMC_RESAMPLE_RESIDUAL"
    /\ N = 3
    /\ pParticles[1].lw = Fin(0)
    /\ pParticles[2].lw = Fin(-1)
    /\ pParticles[3].lw = Fin(-1)
    /\ uRSIndices = <<1, 0, 0>>
    /\ uRSCount = <<1, 0, 2>>

\* Residual resampling of three particles of weights 2/3, 1/3 and 0: every
\* N * w_i / W is an integer, and the counts are 2, 1 and 0.
C15_WitnessInteger ==
    /\ pc = "Resample_map"
    /\ lMode = "SMC_RESAMPLE_RESIDUAL"
    /\ N = 3
    /\ pParticles[1].lw = Fin(0)
    /\ pParticles[2].lw = Fin(-1)
    /\ pParticles[3].lw = NegInf
    /\ uRSCount = <<2, 1, 0>>

\* C16: reproducibility.  Two runs of the same operations (Initialise and
\* the same number of iterations, at least one) on samplers constructed with
\* the same seed and the same worker count end with identical populations
\* and identical nAccepted, however the workers of the parallel move and
\* MCMC loops interleave.
C16_Reproducible ==
    (/\ run[1].at = "idle"
     /\ run[2].at = "idle"
     /\ run[1].T = run[2].T
     /\ run[1].T >= 1)
        => /\ run[1].pParticles = run[2].pParticles
           /\ run[1].nAccepted = run[2].nAccepted

\* With one worker the two runs do agree.
C16_OneWorkerReproducible == nThreads = 1 => C16_Reproducible

\* C17: with history, IntegratePathSampling called with the integrand 1 and
\* the constant width Delta, T iterations after Initialise, returns exactly
\* Delta * T.
C17_PathSamplingRoundTrip ==
    dRes.set => dRes.value = Ratio(dRes.width * dRes.T, 1)

\* What IntegratePathSampling does return: Delta for each of the T + 1
\* intervals between the T + 2 snapshots it integrates over (generation 0 as
\* Initialise pushed it, generations 0 .. T - 1 as the iterations pushed
\* them, and the current one), or NaN when a snapshot has no weight.
C17_IntervalsCounted ==
    dRes.set => \/ dRes.value.nan
                \/ dRes.value = Ratio(dRes.width * (dRes.T + 1), 1)

\* C18: IterateEss resamples exactly when the ESS of the normalised
\* population is below the threshold (NaN is not below): it then sets
\* nResampled to 1 and enters ResampleFribble or Resample, and otherwise sets
\* nResampled to 0 and leaves the population as it is.  ESS, the value it
\* returns, is the ESS of the normalised population before any resampling:
\* neither ESS nor nResampled changes from the test until the call returns,
\* and the return leaves nResampled as it is.  With
\* all log-weights equal and a threshold of at most N there is no resampling
\* and nResampled is 0.
C18_ResampleIffEssBelowThreshold ==
    /\ [][pc = "IterateEss_ess"
            => LET ess == GetESS(pParticles)
                   below == (~ ess.nan) /\ 2 * ess.num < dResampleThreshold * ess.den
               IN /\ ESS' = ess
                  /\ below => /\ nResampled' = 1
                              /\ pc' \in {"Resample", "ResampleFribble"}
                  /\ (~ below) => /\ nResampled' = 0
                                  /\ pc' = "IterateEss_mcmc"
                                  /\ pParticles' = pParticles
                  /\ ((\A a, b \in 1 .. N : pParticles[a].lw = pParticles[b].lw)
                         /\ dResampleThreshold <= 2 * N)
                        => (nResampled' = 0 /\ pc' = "IterateEss_mcmc")
         ]_vars
    /\ [][(caller = "IterateEss"
             /\ pc \notin {"IterateEss_normalise", "IterateEss_ess"})
            => /\ nResampled' = nResampled
               /\ pc # "IterateEss_mcmc" => ESS' = ESS
         ]_vars

\* IterateEss has found an ESS of 1 in a population of two particles, one of
\* weight zero, with the threshold 1.5; it has set nResampled and is about
\* to resample.
C18_Witness ==
    /\ pc = "Resample"
    /\ caller = "IterateEss"
    /\ N = 2
    /\ dResampleThreshold = 3
    /\ pParticles[2].lw = NegInf
    /\ ESS = Ratio(1, 1)
    /\ nResampled = 1

\* C19: with history, whenever the sampler is at rest the resample flag of
\* every snapshot of the history is set exactly when the iteration that
\* produced the snapshot's population resampled; it is clear for a snapshot
\* of generation 0, which no iteration produced.
C19_FlagsRecordResampling ==
    (htHistoryMode # "SMC_HISTORY_NONE" /\ pc = "idle")
        => /\ Len(produced.hist) = Len(History)
           /\ \A g \in 1 .. Len(History) :
                History[g].flags.Resampled = produced.hist[g]

\* C20: Initialise, called in any state the sampler can be at rest in,
\* leaves T = 0; with history it leaves a stack of exactly one snapshot,
\* which holds the freshly initialised population with the acceptance count
\* 0 and the resample flag clear; without history it leaves the stack as it
\* was.
C20_InitialiseResetsHistory ==
    [][Initialise
        => /\ T' = 0
           /\ pc' = "idle"
           /\ \A i \in 1 .. N : pParticles'[i] = DoInit(i - 1, Fin(0))
           /\ htHistoryMode # "SMC_HISTORY_NONE"
                => History' = <<[number |-> N, value |-> pParticles',
                                 accepted |-> 0, flags |-> [Resampled |-> FALSE]]>>
           /\ htHistoryMode = "SMC_HISTORY_NONE" => History' = History
      ]_vars

\* Initialise has been called again after iterations in which both
\* particles were accepted: T is 0 and the history holds one snapshot, while
\* nAccepted still counts the two acceptances.
C20_Witness ==
    /\ pc = "idle"
    /\ htHistoryMode = "SMC_HISTORY_RAM"
    /\ T = 0
    /\ Len(History) = 1
    /\ History[1].accepted = 0
    /\ nAccepted = 2
    /\ \A i \in 1 .. N : pParticles[i] = DoInit(i - 1, Fin(0))

\* C21: for every worker count and interleaving, no slot is written twice in
\* a parallel move or MCMC loop, and when the loop joins every slot has been
\* written once, by one worker; after the MCMC loop of IterateEss or of
\* IterateEssVariable, nAccepted is the number of particles for which the
\* MCMC kernel returned true in that iteration.
C21_OneWriterPerSlot ==
    \A r \in DOMAIN run :
        /\ run[r].at \in {"move", "batch", "mcmc"}
             => /\ \A i \in 0 .. (N - 1) : Len(run[r].writes[i]) <= 1
                /\ (\A w \in DOMAIN run[r].todo : run[r].todo[w] = <<>>)
                     => \A i \in 0 .. (N - 1) : Len(run[r].writes[i]) = 1
        /\ (run[r].at = "idle" /\ run[r].method # "none")
             => run[r].nAccepted = run[r].trues

\* IterateEssVariable has returned in a sampler of two particles and two
\* workers, the MCMC kernel having accepted both particles.
C21_Witness ==
    /\ run[1].at = "idle"
    /\ run[1].method = "IterateEssVariable"
    /\ N = 2
    /\ nThreads = 2
    /\ run[1].nAccepted = 2
    /\ run[1].writes = [i \in 0 .. 1 |-> <<i>>]

\* C22: the batch loop of IterateEssVariable.  While it runs, every batch
\* so far has added exactly N particles, at most ceil(NMax / N) batches have
\* been run, and no earlier batch met the stopping condition (the ESS was
\* below the threshold and the population below NMax); when it has stopped,
\* at least one batch was run and the last one left ESS >= threshold or a
\* population of at least NMax.
C22_BatchLoopStopsAtFirstGoodBatch ==
    (caller = "IterateEssVariable" /\ pc \in {"Variable_batch", "Variable_finish"})
        => /\ Len(pParticles) % N = 0
           /\ Len(pParticles) <= N * ((NMax + N - 1) \div N)
           /\ (pc = "Variable_batch" /\ pParticles # <<>>)
                => /\ (~ dESS.nan) /\ 2 * dESS.num < dResampleThreshold * dESS.den
                   /\ Len(pParticles) < NMax
           /\ pc = "Variable_finish"
                => /\ Len(pParticles) >= N
                   /\ \/ (~ dESS.nan) /\ 2 * dESS.num >= dResampleThreshold * dESS.den
                      \/ Len(pParticles) >= NMax

\* The part of C22 that holds: the batches add N particles each, there are
\* between one (once the loop has stopped) and ceil(NMax / N) of them, and
\* the loop goes on only below the threshold and below NMax.
C22_BatchesBounded ==
    (caller = "IterateEssVariable" /\ pc \in {"Variable_batch", "Variable_finish"})
        => /\ Len(pParticles) % N = 0
           /\ Len(pParticles) <= N * ((NMax + N - 1) \div N)
           /\ (pc = "Variable_batch" /\ pParticles # <<>>)
                => /\ (~ dESS.nan) /\ 2 * dESS.num < dResampleThreshold * dESS.den
                   /\ Len(pParticles) < NMax
           /\ pc = "Variable_finish" => Len(pParticles) >= N

\* C23: a call of IntegratePathSampling with the history enabled leaves the
\* sampler as it was: the history stack (depth and snapshots), T, N, the
\* particles and nAccepted are the same after the call as before it.
C23_PathSamplingRestoresSampler ==
    [][(/\ pc = "idle"
        /\ htHistoryMode # "SMC_HISTORY_NONE"
        /\ dRes' # dRes)
          => /\ dRes'.set
             /\ History' = History
             /\ T' = T
             /\ N' = N
             /\ pParticles' = pParticles
             /\ nAccepted' = nAccepted]_vars

\* A result was returned for a sampler with iterations behind it, whose
\* stack holds the snapshots pushed by Initialise and the iterations.
C23_Witness ==
    /\ pc = "idle"
    /\ dRes.set
    /\ dRes.T = T
    /\ T >= 1
    /\ Len(History) >= 2
    /\ History[Len(History)].value # pParticles

\* The population left by the move step of the IterateEss call under way
\* had log-weight minus infinity throughout: the generation pushed at the
\* start of the call holds no NaN, so the moved log-weights were finite or
\* minus infinity, and the normalisation has turned every one of them into
\* -inf - (-inf), which it does only if the maximum was minus infinity.
AllMinusInfinityAfterMove ==
    /\ pc = "IterateEss_ess"
    /\ caller = "IterateEss"
    /\ History # <<>>
    /\ \A i \in DOMAIN HistoryTop(History).value :
         ~ IsNaN(HistoryTop(History).value[i].lw)
    /\ \A i \in DOMAIN pParticles : IsNaN(pParticles[i].lw)

\* C24: when every particle has log-weight minus infinity after the move
\* step of IterateEss, the ESS evaluates to 0, the resampling branch is
\* taken and nResampled is set to 1.
C24_AllMinusInfinityResamples ==
    [][AllMinusInfinityAfterMove
          => /\ ESS' = RealZero
             /\ nResampled' = 1
             /\ pc' \in {"Resample", "ResampleFribble"}]_vars

\* What the code does in that case: the ESS is NaN, which is not below the
\* threshold, so the population is not resampled and nResampled is 0.
C24_AllMinusInfinityIsNaN ==
    [][AllMinusInfinityAfterMove
          => /\ ESS' = RealNaN
             /\ nResampled' = 0
             /\ pc' = "IterateEss_mcmc"]_vars

\* C25: in the stratified and systematic branches of Resample, with a
\* positive total weight, whenever k is incremented and the cumulative
\* weight advanced by the weight of pParticles[k], the index read is in
\* [0, N).
C25_CursorStaysInBounds ==
    [][(/\ pc \in {"Resample_stratified", "Resample_systematic"}
        /\ SumSeq(Weights(pParticles)) > 0
        /\ k' # k)
          => (k' >= 0 /\ k' < N)]_vars

\* What holds instead: the read is in bounds on every pass but the last,
\* and on the pass that leaves the outer loop (all N children assigned) the
\* index read is at most N.
C25_CursorAtMostN ==
    [][(/\ pc \in {"Resample_stratified", "Resample_systematic"}
        /\ SumSeq(Weights(pParticles)) > 0
        /\ k' # k)
          => /\ k' >= 0 /\ k' <= N
             /\ pc' = pc => k' < N]_vars

\* C26: when IterateEssVariable returns, nResampled is 1 if the accumulated
\* population was downsampled in the call (it held more than N particles)
\* and 0 if it was not, whatever nResampled was before the call.
C26_FlagTellsDownsampling ==
    [][(pc = "Variable_finish" /\ caller = "IterateEssVariable")
          => nResampled' = IF Len(pParticles) > N THEN 1 ELSE 0]_vars

\* What holds instead: a downsampling sets the flag, and a call without one
\* leaves the flag as it was.
C26_FlagSetOrKept ==
    [][(pc = "Variable_finish" /\ caller = "IterateEssVariable")
          => nResampled' = IF Len(pParticles) > N THEN 1 ELSE nResampled]_vars

\* The generation of a snapshot: the time index at which its particles were
\* last moved (0 for the particles drawn by Initialise).
GenerationOf(snapshot) == snapshot.value[1].value[2]

\* C27: with the history enabled, after Initialise and T iterations without
\* a rollback, the stack holds one snapshot per generation 0 .. T - 1, in
\* order: the snapshot at position g (oldest first, from 0) is the
\* population of time index g, and no generation is stored twice.
C27_OneSnapshotPerGeneration ==
    (pc = "idle" /\ htHistoryMode # "SMC_HISTORY_NONE")
        => /\ Len(History) = T
           /\ \A g \in 0 .. (T - 1) :
                g + 1 <= Len(History) => GenerationOf(History[g + 1]) = g
           /\ \A g, h \in DOMAIN History :
                g # h => GenerationOf(History[g]) # GenerationOf(History[h])

\* What holds instead: the stack holds T + 1 snapshots; Initialise pushed
\* generation 0, the first iteration pushed generation 0 once more, and each
\* later iteration pushed the generation it started from.
C27_GenerationZeroTwice ==
    (pc = "idle" /\ htHistoryMode # "SMC_HISTORY_NONE")
        => /\ Len(History) = T + 1
           /\ GenerationOf(History[1]) = 0
           /\ \A g \in 0 .. (T - 1) : GenerationOf(History[g + 2]) = g

====
